---- MODULE Spec2Model ----
(***************************************************************************)
(* Atlas device-information collector (atlas.core._infra.device_info).     *)
(*                                                                         *)
(* The module holds several specifications over one set of variables:      *)
(*   SpecNew      DeviceInfo.__new__ called by concurrent threads          *)
(*   Spec         get_device_info calls on the shared collector            *)
(*   SpecPlatform _platform_info applied to every bounded host environment *)
(*   SpecDisk     _disk_info applied to every bounded host environment     *)
(*   SpecNetwork  _network_info applied to every bounded host environment  *)
(* Optional values (Python None) are <<>> and a present value v is <<v>>.  *)
(* Exceptions are records [type, msg, cause]; msg is a sequence of tokens. *)
(***************************************************************************)
EXTENDS Integers, Sequences, FiniteSets, TLC

VARIABLES
    instance,   \* DeviceInfo._instance: 0 is None, n > 0 the n-th object built
    lock,       \* DeviceInfo._lock: 0 is free, t the thread holding it
    built,      \* number of objects super().__new__ has constructed
    tpc,        \* tpc[t]: position of thread t inside __new__
    tobj,       \* tobj[t]: object thread t has just constructed (0 none)
    tret,       \* tret[t]: sequence of the values DeviceInfo() returned to t
    cpc,        \* cpc[c]: position of caller c inside get_device_info
    arg,        \* arg[c]: the params argument as passed (<<>> is None)
    params,     \* params[c]: the local variable params (the flags in force)
    result,     \* result[c]: the GetDeviceInfoReturn under construction
    outcome,    \* outcome[c]: <<>> running, <<"return", r>> or <<"raise", e>>
    invoked,    \* invoked[c]: sub-collectors called so far, in order
    failedAt,   \* failedAt[c]: the sub-collector that raised: its name, the
                \* host environment it saw and the exception it raised
    fin,        \* sub-collector specifications: the host environment
    fout,       \* sub-collector specifications: the outcome of the call
    fpc         \* sub-collector specifications: "ready" or "done"

vars == <<instance, lock, built, tpc, tobj, tret,
          cpc, arg, params, result, outcome, invoked, failedAt, fin, fout, fpc>>

newVars  == <<instance, lock, built, tpc, tobj, tret>>
callVars == <<cpc, arg, params, result, outcome, invoked, failedAt>>
funVars  == <<fin, fout, fpc>>

\* the parts of the state a specification does not use
NewIdle ==
    /\ instance = 0 /\ lock = 0 /\ built = 0
    /\ tpc = <<>> /\ tobj = <<>> /\ tret = <<>>

CallIdle ==
    /\ cpc = <<>> /\ arg = <<>> /\ params = <<>> /\ result = <<>>
    /\ outcome = <<>> /\ invoked = <<>> /\ failedAt = <<>>

FunIdle == fin = <<>> /\ fout = <<>> /\ fpc = "unused"

(***************************************************************************)
(* Optional values and exceptions                                          *)
(***************************************************************************)
None == <<>>
Some(v) == <<v>>
IsNone(x) == x = <<>>
Val(x) == x[1]

Ok(v) == [ok |-> TRUE, value |-> v]
Raise(e) == [ok |-> FALSE, error |-> e]

Exc(type, msg) == [type |-> type, msg |-> msg, cause |-> None]

\* s occurs in t as a contiguous run of tokens (Python's `s in t` on strings)
Contains(t, s) ==
    \E i \in 0..(Len(t) - Len(s)) : SubSeq(t, i + 1, i + Len(s)) = s

(***************************************************************************)
(* DeviceInfo.__new__ : double-checked locking singleton                   *)
(***************************************************************************)
NThreads == 3
MaxCalls == 2

Threads == 1..NThreads

InitNew ==
    /\ instance = 0
    /\ lock = 0
    /\ built = 0
    /\ tpc = [t \in Threads |-> "idle"]
    /\ tobj = [t \in Threads |-> 0]
    /\ tret = [t \in Threads |-> <<>>]

\* a thread calls DeviceInfo()
NewCall(t) ==
    /\ tpc[t] = "idle"
    /\ Len(tret[t]) < MaxCalls
    /\ tpc' = [tpc EXCEPT ![t] = "check1"]
    /\ UNCHANGED <<instance, lock, built, tobj, tret>>
    /\ UNCHANGED <<callVars, funVars>>

\* line 47: if cls._instance is None
NewCheck1(t) ==
    /\ tpc[t] = "check1"
    /\ tpc' = [tpc EXCEPT ![t] = IF instance = 0 THEN "acquire" ELSE "return"]
    /\ UNCHANGED <<instance, lock, built, tobj, tret>>
    /\ UNCHANGED <<callVars, funVars>>

\* line 48: with cls._lock (blocks while another thread holds the lock)
NewAcquire(t) ==
    /\ tpc[t] = "acquire"
    /\ lock = 0
    /\ lock' = t
    /\ tpc' = [tpc EXCEPT ![t] = "check2"]
    /\ UNCHANGED <<instance, built, tobj, tret>>
    /\ UNCHANGED <<callVars, funVars>>

\* mutant: the check under the lock is left out
SecondCheckMissing(inst) == TRUE

\* the second check of line 49, as the code has it
SecondCheck(inst) == inst = 0

\* line 49: if cls._instance is None (under the lock)
NewCheck2(t) ==
    /\ tpc[t] = "check2"
    /\ tpc' = [tpc EXCEPT ![t] = IF SecondCheck(instance) THEN "construct" ELSE "release"]
    /\ UNCHANGED <<instance, lock, built, tobj, tret>>
    /\ UNCHANGED <<callVars, funVars>>

\* line 50, right-hand side: super().__new__(cls) builds a fresh object
NewConstruct(t) ==
    /\ tpc[t] = "construct"
    /\ built' = built + 1
    /\ tobj' = [tobj EXCEPT ![t] = built + 1]
    /\ tpc' = [tpc EXCEPT ![t] = "store"]
    /\ UNCHANGED <<instance, lock, tret>>
    /\ UNCHANGED <<callVars, funVars>>

\* line 50, assignment: cls._instance = <the new object>
NewStore(t) ==
    /\ tpc[t] = "store"
    /\ instance' = tobj[t]
    /\ tpc' = [tpc EXCEPT ![t] = "release"]
    /\ UNCHANGED <<lock, built, tobj, tret>>
    /\ UNCHANGED <<callVars, funVars>>

\* mutant: the lock stays with the thread that leaves the with block
LockAfterWithHeld(t) == t

\* line 48, __exit__ of `with cls._lock`: the lock is free again
LockAfterWith(t) == 0

\* end of the with block: the lock is released
NewRelease(t) ==
    /\ tpc[t] = "release"
    /\ lock = t
    /\ lock' = LockAfterWith(t)
    /\ tpc' = [tpc EXCEPT ![t] = "return"]
    /\ UNCHANGED <<instance, built, tobj, tret>>
    /\ UNCHANGED <<callVars, funVars>>

\* line 51: return cls._instance
NewReturn(t) ==
    /\ tpc[t] = "return"
    /\ tret' = [tret EXCEPT ![t] = Append(@, instance)]
    /\ tpc' = [tpc EXCEPT ![t] = "idle"]
    /\ UNCHANGED <<instance, lock, built, tobj>>
    /\ UNCHANGED <<callVars, funVars>>

(***************************************************************************)
(* _platform_info                                                          *)
(***************************************************************************)
MaxTime == 2

Times == 0..MaxTime

\* characters of a machine-id file: two whitespace characters, two others
Whitespace == {" ", "\n"}
FileTexts == {<<"a", "\n">>, <<" ", "b">>, <<"\n">>}

RECURSIVE LStrip(_)
LStrip(s) == IF s # <<>> /\ Head(s) \in Whitespace THEN LStrip(Tail(s)) ELSE s

RECURSIVE RStrip(_)
RStrip(s) ==
    IF s # <<>> /\ s[Len(s)] \in Whitespace THEN RStrip(SubSeq(s, 1, Len(s) - 1)) ELSE s

\* str.strip()
Strip(s) == RStrip(LStrip(s))

\* the host as _platform_info sees it
PlatformEnvs ==
    LET base == [hostname : {"ok", "raise"}, boot : Times, now : Times]
        Ext(b, os, reg, f1, t1, f2, t2, io) ==
            [hostname |-> b.hostname, boot |-> b.boot, now |-> b.now, os |-> os,
             reg |-> reg, file1 |-> f1, text1 |-> t1, file2 |-> f2, text2 |-> t2,
             ioreg |-> io]
    IN  UNION { {Ext(b, "windows", r, "none", <<>>, "none", <<>>, "none") :
                    r \in {"ok", "raise"}}
                \cup {Ext(b, "linux", "none", "ok", t, "none", <<>>, "none") :
                    t \in FileTexts}
                \cup {Ext(b, "linux", "none", "FileNotFoundError", <<>>, "ok", t, "none") :
                    t \in FileTexts}
                \cup {Ext(b, "linux", "none", f, <<>>, "raise", <<>>, "none") :
                    f \in {"FileNotFoundError", "PermissionError"}}
                \cup {Ext(b, "linux", "none", "ok", <<"a", "\n">>, "ok", <<" ", "b">>, "none"),
                      Ext(b, "linux", "none", "PermissionError", <<>>, "ok", <<" ", "b">>,
                          "none")}
                \cup {Ext(b, "darwin", "none", "none", <<>>, "none", <<>>, io) :
                    io \in {"match", "nomatch", "raise"}}
                \cup {Ext(b, "other", "none", "none", <<>>, "none", <<>>, "none")}
              : b \in base }

\* mutant: the registry read is not guarded
WindowsMachineIdUnguarded(e) ==
    IF e.reg = "ok" THEN Ok(Some(<<"g", "u", "i", "d">>))
    ELSE Raise(Exc("OSError", <<"registry read failed">>))

\* lines 113-124: the registry read; every exception is swallowed
WindowsMachineId(e) ==
    IF e.reg = "ok" THEN Ok(Some(<<"g", "u", "i", "d">>)) ELSE Ok(None)

\* mutant: the first open() falls back on every exception
CaughtByFirstOpenAlways(kind) == TRUE

\* the handler of the first open() of lines 127-135, as the code has it
CaughtByFirstOpen(kind) == kind = "FileNotFoundError"

\* lines 126-135: /etc/machine-id, then /var/lib/dbus/machine-id
LinuxMachineId(e) ==
    IF e.file1 = "ok" THEN Ok(Some(Strip(e.text1)))
    ELSE IF CaughtByFirstOpen(e.file1)
         THEN IF e.file2 = "ok" THEN Ok(Some(Strip(e.text2))) ELSE Ok(None)
         ELSE Raise(Exc(e.file1, <<"machine-id unreadable">>))

\* lines 137-151: ioreg and the IOPlatformUUID pattern
DarwinMachineId(e) ==
    IF e.ioreg = "match" THEN Ok(Some(<<"u", "u", "i", "d">>)) ELSE Ok(None)

\* mutant: the identifier is only there once the host has been up for a while
MachineIdAfterUptime(e) ==
    IF e.now > e.boot THEN Ok(Some(<<"i", "d">>)) ELSE Ok(None)

\* lines 111-151
MachineId(e) ==
    CASE e.os = "windows" -> WindowsMachineId(e)
      [] e.os = "linux"   -> LinuxMachineId(e)
      [] e.os = "darwin"  -> DarwinMachineId(e)
      [] OTHER            -> Ok(None)

\* mutant: PlatformInfoReturn takes its fields unvalidated
PlatformValidUnchecked(r) == TRUE

\* PlatformInfoReturn's field constraints (boot_time and uptime ge=0.0)
PlatformValid(r) == Val(r.boot_time) >= 0 /\ Val(r.uptime) >= 0

ValidationError(model) == Exc("ValidationError", <<"validation error for ", model>>)

\* the except clause of line 166-167 (no `from e`: the cause stays unset)
PlatformFailure(e) == Exc("RuntimeError", <<"Failed to get platform info", ": ">> \o e.msg)

\* lines 106-167
PlatformInfo(e) ==
    IF e.hostname = "raise"
    THEN Raise(PlatformFailure(Exc("Exception", <<"hostname lookup failed">>)))
    ELSE LET mid == MachineId(e)
             r == [hostname |-> Some("host"),
                   machine_id |-> IF mid.ok THEN mid.value ELSE None,
                   os_name |-> Some(e.os),
                   os_version |-> Some("version"),
                   python_version |-> Some("python"),
                   platform |-> Some("platform"),
                   architecture |-> Some("machine"),
                   processor |-> Some("processor"),
                   boot_time |-> Some(e.boot),
                   uptime |-> Some(e.now - e.boot)]
         IN  IF ~mid.ok THEN Raise(PlatformFailure(mid.error))
             ELSE IF ~PlatformValid(r)
                  THEN Raise(PlatformFailure(ValidationError("PlatformInfoReturn")))
                  ELSE Ok(r)

(***************************************************************************)
(* _cpu_info                                                               *)
(***************************************************************************)
\* the host as _cpu_info sees it: which query raises (if any), whether
\* psutil.cpu_freq() is None, the two core counts, hz_advertised, the usage;
\* logical is the logical core count the OS would report, which _cpu_info
\* does not ask for
CpuEnvs ==
    [query : {"ok", "cpu_freq", "get_cpu_info", "cpu_percent", "cpu_count"},
     freq : {"none", "known"},
     physical : {None, Some(2)},
     logical : {Some(4), Some(8)},
     count : {None, Some(0), Some(4)},
     hz : {None, Some(3000)},
     usage : {0, 100, 101}]

\* CPUInfoReturn's field constraints
CpuValid(r) ==
    /\ IsNone(r.physical_cores) \/ Val(r.physical_cores) >= 1
    /\ IsNone(r.logical_cores) \/ Val(r.logical_cores) >= 1
    /\ IsNone(r.current_freq) \/ Val(r.current_freq) >= 0
    /\ IsNone(r.base_freq) \/ Val(r.base_freq) >= 0
    /\ Val(r.cpu_usage) >= 0 /\ Val(r.cpu_usage) <= 100

\* the except clause of lines 209-210 (`from e`)
CpuFailure(e) ==
    [type |-> "RuntimeError",
     msg |-> <<"Failed to obtain CPU information", ": ">> \o e.msg,
     cause |-> Some(e)]

\* mutant: the OS-reported physical count is taken as it is
PhysicalCoresNoFallback(e) == e.physical

\* line 194: physical_cores or cpu_info.get("count")
PhysicalCores(e) ==
    IF ~IsNone(e.physical) /\ Val(e.physical) # 0 THEN e.physical ELSE e.count

\* lines 179-210; hz is hz_advertised[0] in units of 1_000_000 Hz, so that
\* base_freq = hz_advertised[0] / 1_000_000 is hz itself
CpuInfo(e) ==
    IF e.query # "ok"
    THEN Raise(CpuFailure(Exc("Exception", <<e.query, " failed">>)))
    ELSE LET r == [brand_raw |-> Some("brand"),
                   vendor_id_raw |-> Some("vendor"),
                   physical_cores |-> PhysicalCores(e),
                   logical_cores |-> e.count,
                   current_freq |-> IF e.freq = "known" THEN Some(2400) ELSE None,
                   base_freq |-> e.hz,
                   cpu_usage |-> Some(e.usage)]
         IN  IF CpuValid(r) THEN Ok(r)
             ELSE Raise(CpuFailure(ValidationError("CPUInfoReturn")))

(***************************************************************************)
(* _memory_info                                                            *)
(***************************************************************************)
\* the host as _memory_info sees it; buffers/cached/shared exist on Linux only
MemoryEnvs ==
    [query : {"ok", "virtual_memory", "swap_memory"},
     total : {8, 16},
     used : {-1, 4},
     linux : BOOLEAN]

\* MemoryInfoReturn's field constraints
MemoryValid(r) ==
    /\ Val(r.total) >= 0 /\ Val(r.used) >= 0
    /\ Val(r.percent) >= 0 /\ Val(r.percent) <= 100
    /\ IsNone(r.buffers) \/ Val(r.buffers) >= 0

\* the except clause of lines 245-246 (no `from e`)
MemoryFailure(e) == Exc("RuntimeError", <<"Failed to get memory info", ": ">> \o e.msg)

\* lines 222-246; vm.percent is what psutil reports, here used * 100 / total
MemoryInfo(e) ==
    IF e.query # "ok"
    THEN Raise(MemoryFailure(Exc("Exception", <<e.query, " failed">>)))
    ELSE LET r == [total |-> Some(e.total),
                   used |-> Some(e.used),
                   percent |-> Some((e.used * 100) \div e.total),
                   buffers |-> IF e.linux THEN Some(1) ELSE None]
         IN  IF MemoryValid(r) THEN Ok(r)
             ELSE Raise(MemoryFailure(ValidationError("MemoryInfoReturn")))

(***************************************************************************)
(* _disk_info                                                              *)
(***************************************************************************)
MaxParts == 2

\* round(n / d) to the nearest integer, ties to even (Python's round), d > 0
RoundDiv(n, d) ==
    LET q == n \div d
        r == n % d
    IN  IF 2 * r < d THEN q
        ELSE IF 2 * r > d THEN q + 1
        ELSE IF q % 2 = 0 THEN q ELSE q + 1

\* one mounted partition as the two usage queries see it: the outcome of
\* psutil.disk_usage (with its figures) and of shutil.disk_usage
Part(dev, primary, total, used, free, fallback, ftotal, ffree) ==
    [device |-> dev, primary |-> primary, total |-> total, used |-> used,
     free |-> free, fallback |-> fallback, ftotal |-> ftotal, ffree |-> ffree]

PartitionKinds ==
    { Part("sda1", "ok", 1000, 250, 750, "unused", 0, 0),
      Part("sda2", "ok", 0, 0, 0, "unused", 0, 0),
      Part("sda3", "ok", 3, 1, 1, "unused", 0, 0),
      Part("sda4", "ok", 3, 4, 0, "unused", 0, 0),
      Part("sdb1", "SystemError", 0, 0, 0, "ok", 3, 1),
      Part("sdb2", "UnicodeDecodeError", 0, 0, 0, "ok", 8, 8),
      Part("sdb3", "SystemError", 0, 0, 0, "OSError", 0, 0),
      Part("sdb4", "SystemError", 0, 0, 0, "ok", 1, 3),
      Part("sdc1", "PermissionError", 0, 0, 0, "unused", 0, 0),
      Part("sdc2", "OSError", 0, 0, 0, "unused", 0, 0),
      Part("sdd1", "ok", 10, 4, 5, "ok", 8, 8),
      Part("sdd2", "PermissionError", 0, 0, 0, "ok", 3, 1) }

IoKinds == {"ok", "none", "raise", "invalid"}

\* the host as _disk_info sees it
DiskEnvs ==
    [enum : {"raise"}, parts : {<<>>}, io : {"ok"}]
    \cup [enum : {"ok"},
          parts : UNION {[1..n -> PartitionKinds] : n \in 0..MaxParts},
          io : IoKinds]

\* mutant: the fallback is taken on every failure of the primary query
PartitionUsageFallbackAlways(p) ==
    IF p.primary = "ok"
    THEN Ok([total |-> p.total, used |-> p.used, free |-> p.free])
    ELSE IF p.fallback = "ok"
         THEN Ok([total |-> p.ftotal, used |-> p.ftotal - p.ffree, free |-> p.ffree])
         ELSE Raise(Exc(p.primary, <<"disk_usage failed">>))

\* mutant: a partition whose usage query fails is reported with zeros
PartitionUsageZeroOnError(p) ==
    IF p.primary = "ok"
    THEN Ok([total |-> p.total, used |-> p.used, free |-> p.free])
    ELSE Ok([total |-> 0, used |-> 0, free |-> 0])

\* lines 270-280: psutil first, shutil when psutil raises SystemError or
\* UnicodeDecodeError
PartitionUsage(p) ==
    IF p.primary = "ok"
    THEN Ok([total |-> p.total, used |-> p.used, free |-> p.free])
    ELSE IF p.primary \in {"SystemError", "UnicodeDecodeError"}
         THEN IF p.fallback = "ok"
              THEN Ok([total |-> p.ftotal, used |-> p.ftotal - p.ffree, free |-> p.ffree])
              ELSE Raise(Exc(p.fallback, <<"disk_usage failed">>))
         ELSE Raise(Exc(p.primary, <<"disk_usage failed">>))

\* mutant: the quotient is cut off after two decimals instead of rounded
PercentTruncated(used, total) == IF total > 0 THEN (used * 10000) \div total ELSE 0

\* lines 282-286, in hundredths of a percent
Percent(used, total) == IF total > 0 THEN RoundDiv(used * 10000, total) ELSE 0

\* DiskPartitionInfo's field constraints
PartitionValid(r) ==
    /\ r.total >= 0 /\ r.used >= 0 /\ r.free >= 0
    /\ r.percent >= 0 /\ r.percent <= 10000

\* lines 268-296: the partition's record, or the exception raised on the way
PartitionInfo(p) ==
    LET u == PartitionUsage(p)
        r == [device |-> p.device, total |-> u.value.total, used |-> u.value.used,
              free |-> u.value.free,
              percent |-> Percent(u.value.used, u.value.total)]
    IN  IF ~u.ok THEN u
        ELSE IF PartitionValid(r) THEN Ok(r)
        ELSE Raise(ValidationError("DiskPartitionInfo"))

\* line 305: except (PermissionError, OSError)
SkipsPartition(type) == type \in {"PermissionError", "OSError", "FileNotFoundError"}

EmptyAcc ==
    [partitions |-> <<>>, total |-> 0, used |-> 0, free |-> 0, pcts |-> <<>>,
     error |-> None]

\* mutant: the used total accumulates the free bytes
RecordFreeAsUsed(acc, r) ==
    [acc EXCEPT !.partitions = Append(@, r),
                !.total = @ + r.total,
                !.used = @ + r.free,
                !.free = @ + r.free,
                !.pcts = Append(@, r.percent)]

\* lines 298-303: the record is listed and added to the running totals
Record(acc, r) ==
    [acc EXCEPT !.partitions = Append(@, r),
                !.total = @ + r.total,
                !.used = @ + r.used,
                !.free = @ + r.free,
                !.pcts = Append(@, r.percent)]

\* lines 267-307: the loop over the partitions
RECURSIVE WalkPartitions(_, _)
WalkPartitions(parts, acc) ==
    IF parts = <<>> THEN acc
    ELSE LET i == PartitionInfo(Head(parts))
         IN  IF i.ok THEN WalkPartitions(Tail(parts), Record(acc, i.value))
             ELSE IF SkipsPartition(i.error.type)
                  THEN WalkPartitions(Tail(parts), acc)
                  ELSE [acc EXCEPT !.error = Some(i.error)]

RECURSIVE SumSeq(_)
SumSeq(s) == IF s = <<>> THEN 0 ELSE Head(s) + SumSeq(Tail(s))

\* mutant: the average is the first partition's percentage
AverageUsageOfFirst(pcts) == IF pcts # <<>> THEN Some(Head(pcts)) ELSE None

\* lines 309-313
AverageUsage(pcts) ==
    IF pcts # <<>> THEN Some(RoundDiv(SumSeq(pcts), Len(pcts))) ELSE None

\* mutant: a failed I/O query is reported as counters of zero
IoStatsZeroOnError(io) ==
    IF io = "ok" THEN Some([read_count |-> 7, write_count |-> 5])
    ELSE IF io = "raise" THEN Some([read_count |-> 0, write_count |-> 0])
    ELSE None

\* lines 315-331: any exception, DiskIOInfo's validation included, is swallowed
IoStats(io) == IF io = "ok" THEN Some([read_count |-> 7, write_count |-> 5]) ELSE None

\* DiskInfoReturn's field constraints
DiskValid(r) ==
    /\ r.total_disk_space >= 0 /\ r.total_used_space >= 0 /\ r.total_free_space >= 0
    /\ IsNone(r.average_usage_percent)
       \/ (Val(r.average_usage_percent) >= 0 /\ Val(r.average_usage_percent) <= 10000)

\* the except clause of lines 342-343 (no `from e`)
DiskFailure(e) == Exc("RuntimeError", <<"Failed to get disk info", ": ">> \o e.msg)

\* lines 258-343
DiskInfo(e) ==
    IF e.enum = "raise"
    THEN Raise(DiskFailure(Exc("Exception", <<"disk_partitions failed">>)))
    ELSE LET acc == WalkPartitions(e.parts, EmptyAcc)
             r == [partitions |-> acc.partitions,
                   total_disk_space |-> acc.total,
                   total_used_space |-> acc.used,
                   total_free_space |-> acc.free,
                   io_stats |-> IoStats(e.io),
                   average_usage_percent |-> AverageUsage(acc.pcts)]
         IN  IF ~IsNone(acc.error) THEN Raise(DiskFailure(Val(acc.error)))
             ELSE IF DiskValid(r) THEN Ok(r)
             ELSE Raise(DiskFailure(ValidationError("DiskInfoReturn")))

(***************************************************************************)
(* _network_info                                                           *)
(***************************************************************************)
MaxIfaces == 2

Addr(family, address) == [family |-> family, address |-> address]

Iface(name, addrs, stats, speed) ==
    [name |-> name, addrs |-> addrs, stats |-> stats, speed |-> speed]

\* interfaces as psutil.net_if_addrs() / net_if_stats() report them;
\* stats is "none" (no entry), "down" or "up"
InterfaceKinds ==
    { Iface("lo", <<Addr("AF_INET", "127.0.0.1")>>, "up", 0),
      Iface("Local Area Connection", <<Addr("AF_INET", "192.168.0.2")>>, "up", 100),
      Iface("eth0", <<Addr("AF_LINK", "aa:00"), Addr("AF_INET", "10.0.0.1")>>, "up", 1000),
      Iface("eth1", <<Addr("AF_INET", "10.0.0.2"), Addr("AF_LINK", "aa:01")>>, "down", 100),
      Iface("eth2", <<Addr("AF_INET", "127.0.0.1"), Addr("AF_INET", "10.0.0.3")>>, "up", 0),
      Iface("wlan0", <<Addr("AF_INET6", "fe80::1"), Addr("AF_LINK", "aa:03")>>, "up", 54),
      Iface("tun0", <<Addr("AF_INET", "10.8.0.1")>>, "none", 0) }

\* one psutil.net_io_counters() call
Read(state, sent, recv) == [state |-> state, sent |-> sent, recv |-> recv]

\* the three net_io_counters() calls of lines 400, 404 and 406
CounterScenarios ==
    { <<Read("ok", 0, 0), Read("ok", 0, 0), Read("ok", 0, 0)>>,
      <<Read("ok", 10, 10), Read("ok", 10, 10), Read("ok", 375010, 10)>>,
      <<Read("ok", 5, 5), Read("ok", 5, 5), Read("ok", 6, 375005)>>,
      <<Read("ok", 9, 9), Read("ok", 9, 9), Read("ok", 3, 3)>>,
      <<Read("ok", -1, 0), Read("ok", 0, 0), Read("ok", 0, 0)>>,
      <<Read("ok", 1, 1), Read("ok", 5, 5), Read("ok", 375005, 6)>>,
      <<Read("raise", 0, 0), Read("ok", 0, 0), Read("ok", 0, 0)>>,
      <<Read("none", 0, 0), Read("none", 0, 0), Read("none", 0, 0)>>,
      <<Read("ok", 1, 1), Read("raise", 0, 0), Read("ok", 1, 1)>>,
      <<Read("ok", 1, 1), Read("ok", 1, 1), Read("raise", 0, 0)>> }

ServiceOutcomes == {"match", "nomatch", "raise"}
PingOutcomes == {"match", "nomatch", "nonzero", "raise"}

NetEnv(hostname, discovery, ifaces, services, counters, ping) ==
    [hostname |-> hostname, discovery |-> discovery, ifaces |-> ifaces,
     services |-> services, counters |-> counters, ping |-> ping]

QuietCounters == <<Read("ok", 0, 0), Read("ok", 0, 0), Read("ok", 0, 0)>>

\* the host as _network_info sees it
NetworkEnvs ==
    { NetEnv("raise", "ok", <<>>, <<"match", "match">>, QuietCounters, "match"),
      NetEnv("ok", "raise", <<>>, <<"match", "match">>, QuietCounters, "match"),
      NetEnv("ok", "stats_raise", <<CHOOSE k \in InterfaceKinds : k.name = "eth0">>,
             <<"match", "match">>, QuietCounters, "match") }
    \cup { NetEnv("ok", "ok", i, s, c, p) :
             i \in UNION {[1..n -> InterfaceKinds] : n \in 0..MaxIfaces},
             s \in [1..2 -> ServiceOutcomes],
             c \in CounterScenarios,
             p \in PingOutcomes }

\* line 364: iface.lower().startswith(('lo', 'loopback')), on the names above
LoopbackNamed(name) == name \in {"lo", "Local Area Connection"}

\* line 368: addr.address.startswith('127.')
LoopbackAddress(address) == address \in {"127.0.0.1"}

NoInterface ==
    [local_ip |-> None, mac_address |-> None, interface_name |-> None,
     interface_speed |-> None]

\* lines 375-378: the first link-layer address of the interface
RECURSIVE MacOf(_)
MacOf(addrs) ==
    IF addrs = <<>> THEN None
    ELSE IF Head(addrs).family = "AF_LINK" THEN Some(Head(addrs).address)
    ELSE MacOf(Tail(addrs))

\* mutant: the speed of the selected interface is reported as it is
RECURSIVE ScanAddrsRawSpeed(_, _)
ScanAddrsRawSpeed(iface, addrs) ==
    IF addrs = <<>> THEN NoInterface
    ELSE IF /\ Head(addrs).family = "AF_INET"
            /\ ~LoopbackAddress(Head(addrs).address)
            /\ iface.stats = "up"
         THEN [local_ip |-> Some(Head(addrs).address),
               mac_address |-> MacOf(iface.addrs),
               interface_name |-> Some(iface.name),
               interface_speed |-> Some(iface.speed)]
         ELSE ScanAddrsRawSpeed(iface, Tail(addrs))

\* lines 367-379: the addresses of one interface, in order
RECURSIVE ScanAddrs(_, _)
ScanAddrs(iface, addrs) ==
    IF addrs = <<>> THEN NoInterface
    ELSE IF /\ Head(addrs).family = "AF_INET"
            /\ ~LoopbackAddress(Head(addrs).address)
            /\ iface.stats = "up"
         THEN [local_ip |-> Some(Head(addrs).address),
               mac_address |-> MacOf(iface.addrs),
               interface_name |-> Some(iface.name),
               interface_speed |-> IF iface.speed > 0 THEN Some(iface.speed) ELSE None]
         ELSE ScanAddrs(iface, Tail(addrs))

\* lines 363-381: the interfaces, in enumeration order
RECURSIVE Discover(_)
Discover(ifaces) ==
    IF ifaces = <<>> THEN NoInterface
    ELSE IF LoopbackNamed(Head(ifaces).name) THEN Discover(Tail(ifaces))
    ELSE LET sel == ScanAddrs(Head(ifaces), Head(ifaces).addrs)
         IN  IF ~IsNone(sel.local_ip) THEN sel ELSE Discover(Tail(ifaces))

\* lines 383-398: the IP-echo services in order; service i answers "ip" i
RECURSIVE PublicIp(_, _)
PublicIp(services, i) ==
    IF i > Len(services) THEN None
    ELSE IF services[i] = "match" THEN Some(<<"ip", i>>)
    ELSE PublicIp(services, i + 1)

\* mutant: every service is contacted, match or not
ServicesContactedAll(services, i) == Len(services)

\* lines 386-398: how many services are contacted, the loop ending at the
\* first matching response (line 395)
RECURSIVE ServicesContacted(_, _)
ServicesContacted(services, i) ==
    IF i > Len(services) THEN Len(services)
    ELSE IF services[i] = "match" THEN i
    ELSE ServicesContacted(services, i + 1)

\* mutant: a computed speed of zero is reported as 0.0
SpeedZeroReported(diff) ==
    LET v == RoundDiv(diff * 8 * 100, 3000000)
    IN  IF v >= 0 THEN Some(v) ELSE None

\* lines 411-412 and 446-447, in hundredths of a Mbps
Speed(diff) ==
    LET v == RoundDiv(diff * 8 * 100, 3000000)
    IN  IF v > 0 THEN Some(v) ELSE None

\* mutant: the exit code of the ping command is not looked at
PingIgnoresExitCode(p) == IF p \in {"match", "nonzero"} THEN Some(25) ELSE None

\* lines 414-435: every exception is swallowed
Ping(p) == IF p = "match" THEN Some(25) ELSE None

\* NetworkInfoReturn's field constraints
NetworkValid(r) ==
    /\ IsNone(r.interface_speed) \/ Val(r.interface_speed) >= 0
    /\ Val(r.total_bytes_sent) >= 0 /\ Val(r.total_bytes_recv) >= 0
    /\ IsNone(r.download_speed) \/ Val(r.download_speed) >= 0
    /\ IsNone(r.upload_speed) \/ Val(r.upload_speed) >= 0
    /\ IsNone(r.ping) \/ Val(r.ping) >= 0

\* the except clause of lines 451-452 (`from e`)
NetworkFailure(e) ==
    [type |-> "RuntimeError",
     msg |-> <<"Failed to get network info", ": ">> \o e.msg,
     cause |-> Some(e)]

\* lines 400-409: the first counter read that raises, or returns None and is
\* then dereferenced, ends the sub-collector
CounterError(counters) ==
    LET bad == {i \in 1..3 : counters[i].state # "ok"}
        i == CHOOSE j \in bad : \A k \in bad : j <= k
    IN  IF bad = {} THEN None
        ELSE IF counters[i].state = "raise"
             THEN Some(Exc("Exception", <<"net_io_counters failed">>))
             ELSE Some(Exc("AttributeError", <<"'NoneType' object has no attribute">>))

\* lines 355-452
NetworkInfo(e) ==
    IF e.hostname = "raise"
    THEN Raise(NetworkFailure(Exc("Exception", <<"hostname lookup failed">>)))
    ELSE IF e.discovery = "raise"
    THEN Raise(NetworkFailure(Exc("Exception", <<"net_if_addrs failed">>)))
    ELSE IF e.discovery = "stats_raise"
    THEN Raise(NetworkFailure(Exc("Exception", <<"net_if_stats failed">>)))
    ELSE LET sel == Discover(e.ifaces)
             c == e.counters
             r == [public_ip |-> PublicIp(e.services, 1),
                   local_ip |-> sel.local_ip,
                   mac_address |-> sel.mac_address,
                   hostname |-> Some("host"),
                   interface_speed |-> sel.interface_speed,
                   total_bytes_sent |-> Some(c[1].sent),
                   total_bytes_recv |-> Some(c[1].recv),
                   interface_name |-> sel.interface_name,
                   download_speed |-> Speed(c[3].recv - c[2].recv),
                   upload_speed |-> Speed(c[3].sent - c[2].sent),
                   ping |-> Ping(e.ping)]
         IN  IF ~IsNone(CounterError(c)) THEN Raise(NetworkFailure(Val(CounterError(c))))
             ELSE IF NetworkValid(r) THEN Ok(r)
             ELSE Raise(NetworkFailure(ValidationError("NetworkInfoReturn")))

(***************************************************************************)
(* get_device_info                                                         *)
(***************************************************************************)
Callers == {"c1"}

Categories == <<"platform", "cpu", "memory", "disk", "network">>
CategorySet == {Categories[i] : i \in 1..Len(Categories)}

\* mutant: include_network defaults to False
DefaultParamsNetworkOff == [cat \in CategorySet |-> cat # "network"]

\* GetDeviceInfoParams(): every include_* flag defaults to True
DefaultParams == [cat \in CategorySet |-> TRUE]

\* the arguments a caller may pass: None or any of the 32 flag combinations
Arguments == {None} \cup {Some(f) : f \in [CategorySet -> BOOLEAN]}

\* lines 69-70
EffectiveParams(a) == IF IsNone(a) THEN DefaultParams ELSE Val(a)

\* GetDeviceInfoReturn(): every field defaults to None
EmptyReturn ==
    [platform |-> None, cpu |-> None, memory |-> None, disk |-> None,
     network |-> None, timestamp |-> None]

\* mutant: the memory sub-collector is guarded by include_cpu
EnabledMemoryByCpu(flags, cat) == IF cat = "memory" THEN flags["cpu"] ELSE flags[cat]

\* lines 76, 79, 82, 85, 88: the flag that guards a sub-collector
Enabled(flags, cat) == flags[cat]

\* mutant: the memory sub-collector is called before the cpu sub-collector
NextPcMemoryBeforeCpu(cat) ==
    CASE cat = "platform" -> "memory"
      [] cat = "memory"   -> "cpu"
      [] cat = "cpu"      -> "disk"
      [] cat = "disk"     -> "network"
      [] cat = "network"  -> "return"

\* position after the sub-collector of a category (line 91 after the last)
NextPc(cat) ==
    CASE cat = "platform" -> "cpu"
      [] cat = "cpu"      -> "memory"
      [] cat = "memory"   -> "disk"
      [] cat = "disk"     -> "network"
      [] cat = "network"  -> "return"

\* mutant: the exception is raised without `from e`
DeviceFailureNoCause(e) ==
    Exc("RuntimeError", <<"Failed to get device information", ": ">> \o e.msg)

\* line 94: raise RuntimeError(f"Failed to get device information: {e}") from e
DeviceFailure(e) ==
    [type |-> "RuntimeError",
     msg |-> <<"Failed to get device information", ": ">> \o e.msg,
     cause |-> Some(e)]

\* mutant: the failed sub-collector is called again
OnExceptionRetry(cat, e) == [pc |-> cat, outcome |-> None]

\* mutant: the exception is swallowed and the call goes on
OnExceptionSwallowed(cat, e) == [pc |-> NextPc(cat), outcome |-> None]

\* lines 93-94: every exception of a sub-collector ends the call
OnException(cat, e) ==
    [pc |-> "done", outcome |-> Some([kind |-> "raise", error |-> DeviceFailure(e)])]

\* the host environments get_device_info is run against
CollectPlatformEnvs ==
    {e \in PlatformEnvs :
        \/ /\ e.boot = 0 /\ e.now = MaxTime
           /\ \/ e.os = "windows"
              \/ e.os = "linux" /\ e.file1 = "PermissionError"
        \/ /\ e.boot = MaxTime /\ e.now = 0
           /\ e.os = "windows" /\ e.reg = "ok" /\ e.hostname = "ok"}
CollectCpuEnvs ==
    {e \in CpuEnvs : /\ e.freq = "known" /\ e.physical = None /\ e.hz # None
                     /\ e.logical = Some(4)
                     /\ \/ e.usage = 0 /\ e.count # None
                        \/ e.usage = 101 /\ e.count = Some(4) /\ e.query = "ok"}
CollectMemoryEnvs == {e \in MemoryEnvs : e.total = 8 /\ e.linux}
CollectDiskEnvs ==
    {e \in DiskEnvs : /\ e.io \in {"ok", "raise"}
                      /\ Len(e.parts) <= 1
                      /\ \A i \in 1..Len(e.parts) : e.parts[i].device \in {"sda1", "sda4", "sdc1"}}
CollectNetworkEnvs ==
    {e \in NetworkEnvs : /\ Len(e.ifaces) <= 1
                         /\ \A i \in 1..Len(e.ifaces) : e.ifaces[i].name = "eth0"
                         /\ e.services = <<"raise", "match">>
                         /\ e.ping \in {"match", "raise"}
                         /\ e.counters[3].state # "raise" /\ e.counters[3].sent < 10}

InitCall ==
    /\ cpc = [c \in Callers |-> "idle"]
    /\ arg = [c \in Callers |-> None]
    /\ params = [c \in Callers |-> DefaultParams]
    /\ result = [c \in Callers |-> EmptyReturn]
    /\ outcome = [c \in Callers |-> None]
    /\ invoked = [c \in Callers |-> <<>>]
    /\ failedAt = [c \in Callers |-> None]

\* mutant: the timestamp is never assigned
SetTimestampSkipped(r, t) == r

\* line 73: result.timestamp = time.time()
SetTimestamp(r, t) == [r EXCEPT !.timestamp = Some(t)]

\* mutant: every call builds its snapshot in one object kept on the collector
ResultSlotShared(c) == "c1"

\* line 72: result = GetDeviceInfoReturn() is a local variable of the call,
\* so each call has a snapshot object of its own
ResultSlot(c) == c

\* lines 69-73: a caller enters get_device_info with one of the arguments
\* Args; time.time() returns t
Enter(c, Args) ==
    /\ cpc[c] = "idle"
    /\ \E a \in Args, t \in Times \ {0} :
        /\ arg' = [arg EXCEPT ![c] = a]
        /\ params' = [params EXCEPT ![c] = EffectiveParams(a)]
        /\ result' = [result EXCEPT ![ResultSlot(c)] = SetTimestamp(EmptyReturn, t)]
    /\ cpc' = [cpc EXCEPT ![c] = "platform"]
    /\ UNCHANGED <<outcome, invoked, failedAt>>
    /\ UNCHANGED <<newVars, funVars>>

\* lines 53-73: get_device_info(params) with any argument
Begin(c) == Enter(c, Arguments)

\* a sub-collector applied to a host environment, with what it gives
Call(env, r) == [env |-> env, r |-> r]

\* one guarded sub-collector call of lines 76-89; Calls are the calls the
\* sub-collector may make, one for each host environment
Collect(c, cat, Calls) ==
    /\ IF Enabled(params[c], cat)
       THEN \E call \in Calls :
              LET r == call.r
                  env == call.env
              IN  /\ invoked' = [invoked EXCEPT ![c] = Append(@, cat)]
                  /\ IF r.ok
                     THEN /\ result' = [result EXCEPT ![ResultSlot(c)][cat] = Some(r.value)]
                          /\ cpc' = [cpc EXCEPT ![c] = NextPc(cat)]
                          /\ UNCHANGED <<outcome, failedAt>>
                     ELSE /\ failedAt' = [failedAt EXCEPT ![c] =
                                 Some([cat |-> cat, env |-> env, error |-> r.error])]
                          /\ cpc' = [cpc EXCEPT ![c] = OnException(cat, r.error).pc]
                          /\ outcome' = [outcome EXCEPT ![c] = OnException(cat, r.error).outcome]
                          /\ UNCHANGED result
       ELSE /\ cpc' = [cpc EXCEPT ![c] = NextPc(cat)]
            /\ UNCHANGED <<result, outcome, invoked, failedAt>>
    /\ UNCHANGED <<arg, params>>
    /\ UNCHANGED <<newVars, funVars>>

\* lines 76-77
CollectPlatform(c) ==
    /\ cpc[c] = "platform"
    /\ Collect(c, "platform", {Call(e, PlatformInfo(e)) : e \in CollectPlatformEnvs})

\* lines 79-80
CollectCpu(c) ==
    /\ cpc[c] = "cpu"
    /\ Collect(c, "cpu", {Call(e, CpuInfo(e)) : e \in CollectCpuEnvs})

\* lines 82-83
CollectMemory(c) ==
    /\ cpc[c] = "memory"
    /\ Collect(c, "memory", {Call(e, MemoryInfo(e)) : e \in CollectMemoryEnvs})

\* lines 85-86
CollectDisk(c) ==
    /\ cpc[c] = "disk"
    /\ Collect(c, "disk", {Call(e, DiskInfo(e)) : e \in CollectDiskEnvs})

\* lines 88-89
CollectNetwork(c) ==
    /\ cpc[c] = "network"
    /\ Collect(c, "network", {Call(e, NetworkInfo(e)) : e \in CollectNetworkEnvs})


\* line 91: return result
Return(c) ==
    /\ cpc[c] = "return"
    /\ outcome' = [outcome EXCEPT ![c] =
                        Some([kind |-> "return", value |-> result[ResultSlot(c)]])]
    /\ cpc' = [cpc EXCEPT ![c] = "done"]
    /\ UNCHANGED <<arg, params, result, invoked, failedAt>>
    /\ UNCHANGED <<newVars, funVars>>

Init == NewIdle /\ InitCall /\ FunIdle

Next ==
    \E c \in Callers :
        \/ Begin(c)
        \/ CollectPlatform(c)
        \/ CollectCpu(c)
        \/ CollectMemory(c)
        \/ CollectDisk(c)
        \/ CollectNetwork(c)
        \/ Return(c)

Spec == Init /\ [][Next]_vars

(***************************************************************************)
(* Two threads call get_device_info on the shared collector at once: the   *)
(* method takes no lock, so the steps of the two calls interleave freely   *)
(***************************************************************************)
TwoCallers == {"c1", "c2"}

\* the arguments of the concurrent calls: platform and network only, or
\* cpu, memory and disk only
ConcurrentArguments ==
    {Some([cat \in CategorySet |-> cat \in {"platform", "network"}]),
     Some([cat \in CategorySet |-> cat \in {"cpu", "memory", "disk"}])}

InitConcurrent ==
    /\ NewIdle /\ FunIdle
    /\ cpc = [c \in TwoCallers |-> "idle"]
    /\ arg = [c \in TwoCallers |-> None]
    /\ params = [c \in TwoCallers |-> DefaultParams]
    /\ result = [c \in TwoCallers |-> EmptyReturn]
    /\ outcome = [c \in TwoCallers |-> None]
    /\ invoked = [c \in TwoCallers |-> <<>>]
    /\ failedAt = [c \in TwoCallers |-> None]

BeginConcurrent(c) == Enter(c, ConcurrentArguments)

NextConcurrent ==
    \E c \in TwoCallers :
        \/ BeginConcurrent(c)
        \/ CollectPlatform(c)
        \/ CollectCpu(c)
        \/ CollectMemory(c)
        \/ CollectDisk(c)
        \/ CollectNetwork(c)
        \/ Return(c)

SpecConcurrent == InitConcurrent /\ [][NextConcurrent]_vars

(***************************************************************************)
(* Specifications of the single sub-collectors: the host environment is    *)
(* drawn in the initial state and the sub-collector is applied to it.      *)
(***************************************************************************)
InitPlatform ==
    /\ NewIdle /\ CallIdle
    /\ fin \in PlatformEnvs
    /\ fout = None
    /\ fpc = "ready"

CallPlatformInfo ==
    /\ fpc = "ready"
    /\ fout' = Some(PlatformInfo(fin))
    /\ fpc' = "done"
    /\ UNCHANGED <<fin, newVars, callVars>>

NextPlatform == CallPlatformInfo

SpecPlatform == InitPlatform /\ [][NextPlatform]_vars

InitCpu ==
    /\ NewIdle /\ CallIdle
    /\ fin \in CpuEnvs
    /\ fout = None
    /\ fpc = "ready"

CallCpuInfo ==
    /\ fpc = "ready"
    /\ fout' = Some(CpuInfo(fin))
    /\ fpc' = "done"
    /\ UNCHANGED <<fin, newVars, callVars>>

NextCpu == CallCpuInfo

SpecCpu == InitCpu /\ [][NextCpu]_vars

InitDisk ==
    /\ NewIdle /\ CallIdle
    /\ fin \in DiskEnvs
    /\ fout = None
    /\ fpc = "ready"

CallDiskInfo ==
    /\ fpc = "ready"
    /\ fout' = Some(DiskInfo(fin))
    /\ fpc' = "done"
    /\ UNCHANGED <<fin, newVars, callVars>>

NextDisk == CallDiskInfo

SpecDisk == InitDisk /\ [][NextDisk]_vars

InitNetwork ==
    /\ NewIdle /\ CallIdle
    /\ fin \in NetworkEnvs
    /\ fout = None
    /\ fpc = "ready"

\* what a call of _network_info does to the outside besides its result:
\* the number of IP-echo services it contacts (none when it fails earlier)
NetworkEffects(e) ==
    [contacted |-> IF e.hostname = "ok" /\ e.discovery = "ok"
                   THEN ServicesContacted(e.services, 1) ELSE 0]

\* fout is the outcome followed by the effects of the call
CallNetworkInfo ==
    /\ fpc = "ready"
    /\ fout' = <<NetworkInfo(fin), NetworkEffects(fin)>>
    /\ fpc' = "done"
    /\ UNCHANGED <<fin, newVars, callVars>>

NextNetwork == CallNetworkInfo

SpecNetwork == InitNetwork /\ [][NextNetwork]_vars

NextNew ==
    \E t \in Threads :
        \/ NewCall(t)
        \/ NewCheck1(t)
        \/ NewAcquire(t)
        \/ NewCheck2(t)
        \/ NewConstruct(t)
        \/ NewStore(t)
        \/ NewRelease(t)
        \/ NewReturn(t)

InitSingleton == InitNew /\ CallIdle /\ FunIdle

SpecNew == InitSingleton /\ [][NextNew]_vars

\* fair scheduling: a thread inside __new__ whose next step stays possible
\* takes it in the end.  Calling DeviceInfo() at all is left to the thread.
SpecNewFair ==
    /\ InitSingleton
    /\ [][NextNew]_vars
    /\ \A t \in Threads :
          WF_vars(\/ NewCheck1(t) \/ NewAcquire(t) \/ NewCheck2(t)
                  \/ NewConstruct(t) \/ NewStore(t) \/ NewRelease(t)
                  \/ NewReturn(t))

(***************************************************************************)
(* Two consecutive get_device_info calls on one unchanged host.  fin is    *)
(* the host: what stays as it is between the calls (OS family, identifier  *)
(* sources, boot time, processor, installed memory).  Clock, load, memory  *)
(* in use, disks and network traffic are read anew by every call.  fout is *)
(* the outcome of the first call once the second has begun.                *)
(***************************************************************************)
HostPlatforms == {e \in PlatformEnvs : e.hostname = "ok" /\ e.boot = 0 /\ e.now = 0}
HostCpus ==
    {e \in CpuEnvs : /\ e.query = "ok" /\ e.freq = "known" /\ e.hz # None
                     /\ e.usage = 0 /\ e.count = Some(4) /\ e.logical = Some(4)}
HostMemories == {e \in MemoryEnvs : e.query = "ok" /\ e.linux /\ e.used = 4}

Hosts == [platform : HostPlatforms, cpu : HostCpus, memory : HostMemories]

\* what one call may see of the host
PlatformAt(h) == {[h.platform EXCEPT !.now = t] : t \in {h.platform.boot, MaxTime}}
CpuAt(h) == {[h.cpu EXCEPT !.usage = u] : u \in {0, 100}}
MemoryAt(h) == {[h.memory EXCEPT !.query = q] : q \in {"ok", "swap_memory"}}
DiskAt(h) ==
    {e \in CollectDiskEnvs : /\ e.enum = "ok" /\ e.io = "ok" /\ Len(e.parts) = 1
                              /\ \A i \in 1..Len(e.parts) : e.parts[i].device = "sda1"}
NetworkAt(h) ==
    {e \in CollectNetworkEnvs : /\ e.discovery = "ok" /\ e.hostname = "ok"
                                 /\ Len(e.ifaces) = 1 /\ e.ping = "match"
                                 /\ e.counters[1].state = "ok" /\ e.counters[1].sent \in {0, 9}}

InitTwice ==
    /\ NewIdle /\ InitCall
    /\ fin \in Hosts
    /\ fout = None
    /\ fpc = "host"

HostCollectPlatform(c) ==
    /\ cpc[c] = "platform"
    /\ Collect(c, "platform", {Call(e, PlatformInfo(e)) : e \in PlatformAt(fin)})

HostCollectCpu(c) ==
    /\ cpc[c] = "cpu"
    /\ Collect(c, "cpu", {Call(e, CpuInfo(e)) : e \in CpuAt(fin)})

HostCollectMemory(c) ==
    /\ cpc[c] = "memory"
    /\ Collect(c, "memory", {Call(e, MemoryInfo(e)) : e \in MemoryAt(fin)})

HostCollectDisk(c) ==
    /\ cpc[c] = "disk"
    /\ Collect(c, "disk", {Call(e, DiskInfo(e)) : e \in DiskAt(fin)})

HostCollectNetwork(c) ==
    /\ cpc[c] = "network"
    /\ Collect(c, "network", {Call(e, NetworkInfo(e)) : e \in NetworkAt(fin)})

\* the caller keeps the outcome of its first call and calls again with the
\* same params (lines 69-73 of the second call)
CallAgain(c) ==
    /\ cpc[c] = "done"
    /\ fout = None
    /\ fout' = Some(Val(outcome[c]))
    /\ \E t \in Times \ {0} :
          result' = [result EXCEPT ![c] = SetTimestamp(EmptyReturn, t)]
    /\ params' = [params EXCEPT ![c] = EffectiveParams(arg[c])]
    /\ cpc' = [cpc EXCEPT ![c] = "platform"]
    /\ outcome' = [outcome EXCEPT ![c] = None]
    /\ invoked' = [invoked EXCEPT ![c] = <<>>]
    /\ failedAt' = [failedAt EXCEPT ![c] = None]
    /\ UNCHANGED <<arg, fin, fpc, newVars>>

NextTwice ==
    \E c \in Callers :
        \/ Begin(c)
        \/ HostCollectPlatform(c)
        \/ HostCollectCpu(c)
        \/ HostCollectMemory(c)
        \/ HostCollectDisk(c)
        \/ HostCollectNetwork(c)
        \/ Return(c)
        \/ CallAgain(c)

SpecTwice == InitTwice /\ [][NextTwice]_vars

(***************************************************************************)
(* InternalBaseModel: attribute assignment on a constructed model instance *)
(* under model_config.  fin is the instance, fout the assignments made so  *)
(* far with their outcomes.                                                *)
(***************************************************************************)
MaxAssign == 3

\* model_config, lines 33-60
Frozen == FALSE
ValidateAssignment == TRUE
StrStripWhitespace == TRUE

\* Python values: a str (a sequence of characters), a float, or None
StrValue(chars) == [type |-> "str", chars |-> chars, num |-> 0]
FloatValue(n) == [type |-> "float", chars |-> <<>>, num |-> n]
NoValue == [type |-> "none", chars |-> <<>>, num |-> 0]

\* the fields of two of the models, with their defaults
ModelFields(model) ==
    IF model = "Constants"
    THEN [WINDOWS_MACHINE_GUID_KEY_NAME |-> StrValue(<<"a">>),
          LINUX_MACHINE_ID_FILE_PATH |-> StrValue(<<"b">>)]
    ELSE [timestamp |-> NoValue]

ModelKinds == {"Constants", "GetDeviceInfoReturn"}

\* Model(): the instance after construction
Construct(model) == [model |-> model, fields |-> ModelFields(model)]

\* the values a caller may try to assign
AssignedValues ==
    {StrValue(<<"a">>), StrValue(<<"n">>), StrValue(<<" ", "b">>),
     FloatValue(-1), FloatValue(1), NoValue}

\* strict validation of a value against the field's annotation
FieldAccepts(model, field, v) ==
    IF model = "Constants" THEN v.type = "str"
    ELSE v.type = "none" \/ (v.type = "float" /\ v.num >= 0)

\* the value as the validated model stores it
Stored(v) ==
    IF v.type = "str" /\ StrStripWhitespace THEN StrValue(Strip(v.chars)) ELSE v

FrozenError == Exc("ValidationError", <<"Instance is frozen">>)

\* instance.field = v under model_config: the new instance and the outcome
SetAttr(inst, field, v) ==
    IF Frozen THEN [inst |-> inst, r |-> Raise(FrozenError)]
    ELSE IF ValidateAssignment /\ ~FieldAccepts(inst.model, field, v)
         THEN [inst |-> inst, r |-> Raise(ValidationError(inst.model))]
         ELSE [inst |-> [inst EXCEPT !.fields[field] = Stored(v)], r |-> Ok(Stored(v))]

InitModel ==
    /\ NewIdle /\ CallIdle
    /\ fin \in {Construct(m) : m \in ModelKinds}
    /\ fout = <<>>
    /\ fpc = "constructed"

\* a caller assigns a value to a field of the instance
Assign ==
    /\ fpc = "constructed"
    /\ Len(fout) < MaxAssign
    /\ \E field \in DOMAIN fin.fields, v \in AssignedValues :
          LET a == SetAttr(fin, field, v)
          IN  /\ fin' = a.inst
              /\ fout' = Append(fout, [field |-> field, value |-> v,
                                       before |-> fin.fields[field], r |-> a.r])
    /\ UNCHANGED <<fpc, newVars, callVars>>

NextModel == Assign

SpecModel == InitModel /\ [][NextModel]_vars

(***************************************************************************)
(* Properties                                                              *)
(***************************************************************************)
Returned(c) == ~IsNone(outcome[c]) /\ Val(outcome[c]).kind = "return"
Raised(c) == ~IsNone(outcome[c]) /\ Val(outcome[c]).kind = "raise"
Snapshot(c) == Val(outcome[c]).value

\* C1: for every one of the 32 flag combinations, a snapshot returned by
\* get_device_info has a category non-null exactly when its flag is true.
FlagGating ==
    \A c \in Callers :
        (Returned(c) /\ ~IsNone(arg[c])) =>
            \A cat \in CategorySet :
                ~IsNone(Snapshot(c)[cat]) <=> Val(arg[c])[cat]

\* C1 witness: a snapshot for a mixed combination (cpu and disk only).
FlagGatingWitness ==
    \E c \in Callers :
        /\ Returned(c) /\ ~IsNone(arg[c])
        /\ Val(arg[c]) = [cat \in CategorySet |-> cat \in {"cpu", "disk"}]
        /\ ~IsNone(Snapshot(c).cpu) /\ ~IsNone(Snapshot(c).disk)
        /\ IsNone(Snapshot(c).platform)

\* C2: once an enabled sub-collector has failed the call ends by raising,
\* and a snapshot that is returned has every requested category non-null.
NoPartialSnapshot ==
    \A c \in Callers :
        /\ ~IsNone(failedAt[c]) => (cpc[c] = "done" /\ Raised(c))
        /\ Returned(c) =>
              /\ IsNone(failedAt[c])
              /\ \A cat \in CategorySet : params[c][cat] => ~IsNone(Snapshot(c)[cat])

\* C2 witness: the disk sub-collector fails after platform, cpu and memory
\* have been collected, and the call raises.
NoPartialSnapshotWitness ==
    \E c \in Callers :
        /\ ~IsNone(failedAt[c]) /\ Val(failedAt[c]).cat = "disk"
        /\ ~IsNone(result[c].platform) /\ ~IsNone(result[c].cpu)
        /\ ~IsNone(result[c].memory)
        /\ Raised(c)

\* the sub-collectors a call has invoked are the first ones of the fixed order
InvokedPrefix(c) == invoked[c] = SubSeq(Categories, 1, Len(invoked[c]))

\* C3: a call with params None runs with all five flags true, exactly as a
\* call given all-true params: the sub-collectors are invoked in the fixed
\* order and a returned snapshot has all five categories.
DefaultIsAllTrue ==
    \A c \in Callers :
        (cpc[c] # "idle" /\ arg[c] \in {None, Some([cat \in CategorySet |-> TRUE])}) =>
            /\ params[c] = [cat \in CategorySet |-> TRUE]
            /\ InvokedPrefix(c)
            /\ Returned(c) =>
                  /\ invoked[c] = Categories
                  /\ \A cat \in CategorySet : ~IsNone(Snapshot(c)[cat])

\* C3 witness: a call with params None has returned its snapshot.
DefaultIsAllTrueWitness ==
    \E c \in Callers :
        /\ IsNone(arg[c]) /\ Returned(c)
        /\ invoked[c] = Categories
        /\ ~IsNone(Snapshot(c).network)

\* C4: the error raised by get_device_info contains 'Failed to get device
\* information' and the failing sub-collector's own message, and its cause is
\* the sub-collector's error; for a throwing hostname lookup in the platform
\* sub-collector it contains 'Failed to get platform info' and the hostname
\* error text.
ErrorWrapsCause ==
    \A c \in Callers :
        Raised(c) =>
            LET e == Val(outcome[c]).error
                f == Val(failedAt[c])
            IN  /\ Contains(e.msg, <<"Failed to get device information">>)
                /\ Contains(e.msg, f.error.msg)
                /\ e.cause = Some(f.error)
                /\ (f.cat = "platform" /\ f.env.hostname = "raise") =>
                      /\ Contains(e.msg, <<"Failed to get platform info">>)
                      /\ Contains(e.msg, <<"hostname lookup failed">>)

\* C4 witness: the hostname lookup of the platform sub-collector throws and
\* the call has raised.
ErrorWrapsCauseWitness ==
    \E c \in Callers :
        /\ Raised(c)
        /\ Val(failedAt[c]).cat = "platform"
        /\ Val(failedAt[c]).env.hostname = "raise"

\* C5: at most one DeviceInfo object is ever constructed and every call of
\* DeviceInfo(), by whichever thread, returns that one object.
SingleInstance ==
    /\ built <= 1
    /\ \A t \in Threads : \A i \in 1..Len(tret[t]) :
          /\ tret[t][i] # 0
          /\ \A u \in Threads : \A j \in 1..Len(tret[u]) : tret[u][j] = tret[t][i]

\* C5 witness: a thread that saw no instance at the first check finds one at
\* the second, while another thread has already got the instance returned.
SingleInstanceWitness ==
    \E t, u \in Threads :
        /\ t # u
        /\ tpc[t] = "release" /\ tobj[t] = 0
        /\ Len(tret[u]) >= 1 /\ tret[u][1] = instance

Done == fpc = "done"
Out == Val(fout)

\* the machine-identifier lookup of the host's OS family fails
MachineIdLookupFails(e) ==
    \/ e.os = "windows" /\ e.reg = "raise"
    \/ e.os = "linux" /\ e.file1 # "ok" /\ (e.file1 = "FileNotFoundError" => e.file2 # "ok")
    \/ e.os = "darwin" /\ e.ioreg \in {"nomatch", "raise"}

\* the rest of the platform collection succeeds
PlatformRestSucceeds(e) == e.hostname = "ok" /\ e.now >= e.boot

\* C6: whatever the OS family and the kind of failure of the machine-id
\* lookup, _platform_info succeeds with machine_id null.
MachineIdNeverFatal ==
    (Done /\ MachineIdLookupFails(fin) /\ PlatformRestSucceeds(fin)) =>
        (Out.ok /\ IsNone(Out.value.machine_id))

\* C7: on windows, when the registry read raises, _platform_info succeeds
\* with machine_id null and every other platform field populated.
WindowsRegistryAbsorbed ==
    (Done /\ fin.os = "windows" /\ fin.reg = "raise" /\ PlatformRestSucceeds(fin)) =>
        /\ Out.ok
        /\ IsNone(Out.value.machine_id)
        /\ \A f \in DOMAIN Out.value \ {"machine_id"} : ~IsNone(Out.value[f])
        /\ Out.value.os_name = Some("windows")

\* C7 witness: the registry read raised and the platform result is there.
WindowsRegistryAbsorbedWitness ==
    /\ Done /\ fin.os = "windows" /\ fin.reg = "raise"
    /\ Out.ok /\ Out.value.hostname = Some("host")

\* C8: _disk_info fails only when the partition enumeration fails.
DiskFailsOnlyOnEnumeration ==
    (Done /\ fin.enum = "ok") => Out.ok

\* C9: _network_info fails only when the hostname lookup or the interface
\* discovery fails.
NetworkFailsOnlyOnDiscovery ==
    (Done /\ fin.hostname = "ok" /\ fin.discovery = "ok") => Out.ok

\* C10: the three totals of a DiskInfoReturn are the sums of total, used and
\* free over the partitions of its partitions list (0 for an empty list).
DiskTotalsAreSums ==
    (Done /\ Out.ok) =>
        LET ps == Out.value.partitions
        IN  /\ Out.value.total_disk_space = SumSeq([i \in 1..Len(ps) |-> ps[i].total])
            /\ Out.value.total_used_space = SumSeq([i \in 1..Len(ps) |-> ps[i].used])
            /\ Out.value.total_free_space = SumSeq([i \in 1..Len(ps) |-> ps[i].free])
            /\ ps = <<>> => /\ Out.value.total_disk_space = 0
                            /\ Out.value.total_used_space = 0
                            /\ Out.value.total_free_space = 0

\* C10 witness: two partitions enumerated, one skipped and one listed, with
\* used and free bytes that differ.
DiskTotalsAreSumsWitness ==
    /\ Done /\ Out.ok
    /\ Len(fin.parts) = 2 /\ Len(Out.value.partitions) = 1
    /\ Out.value.total_used_space = 250 /\ Out.value.total_free_space = 750

\* v is n / d rounded to the nearest integer (a tie may go either way), d > 0
IsRounded(v, n, d) ==
    LET diff == v * d - n
    IN  2 * diff <= d /\ 2 * diff >= -d

\* C11: average_usage_percent is the mean of the listed partitions' percent
\* values rounded to 2 decimals when the partitions list is not empty, and
\* null when no partition is listed.
AverageIsMeanOfListed ==
    (Done /\ Out.ok) =>
        LET ps == Out.value.partitions
            avg == Out.value.average_usage_percent
        IN  IF ps = <<>> THEN IsNone(avg)
            ELSE /\ ~IsNone(avg)
                 /\ IsRounded(Val(avg), SumSeq([i \in 1..Len(ps) |-> ps[i].percent]),
                              Len(ps))

\* C11 witness: two listed partitions with different percentages (25.0 and
\* 66.67) and their mean as the average.
AverageIsMeanOfListedWitness ==
    /\ Done /\ Out.ok
    /\ Len(Out.value.partitions) = 2
    /\ Out.value.partitions[1].percent = 2500
    /\ Out.value.partitions[2].percent = 6667
    /\ ~IsNone(Out.value.average_usage_percent)

\* C12: a listed partition's percent is round(used / total * 100, 2) when
\* total > 0 (total 1000 and used 250 give exactly 25.0) and 0.0 when
\* total = 0; a partition of total 0 is listed, not an error and not null.
PercentIsRoundedRatio ==
    (Done /\ Out.ok) =>
        LET ps == Out.value.partitions
        IN  /\ \A i \in 1..Len(ps) :
                  /\ ps[i].total > 0 => IsRounded(ps[i].percent, ps[i].used * 10000,
                                                  ps[i].total)
                  /\ (ps[i].total = 1000 /\ ps[i].used = 250) => ps[i].percent = 2500
                  /\ ps[i].total = 0 => ps[i].percent = 0
            /\ \A i \in 1..Len(fin.parts) :
                  (fin.parts[i].primary = "ok" /\ fin.parts[i].total = 0) =>
                      \E j \in 1..Len(ps) :
                          /\ ps[j].device = fin.parts[i].device
                          /\ ps[j].total = 0 /\ ps[j].percent = 0

\* C12 witness: a partition of total 0 and one of total 3 with 2 used, whose
\* quotient rounds up to 66.67, are both listed.
PercentIsRoundedRatioWitness ==
    /\ Done /\ Out.ok
    /\ \E i, j \in 1..Len(Out.value.partitions) :
          /\ Out.value.partitions[i].total = 0
          /\ Out.value.partitions[i].percent = 0
          /\ Out.value.partitions[j].total = 3
          /\ Out.value.partitions[j].used = 2
          /\ Out.value.partitions[j].percent = 6667

\* an optional number is absent or within bounds
AtLeast(x, lo) == IsNone(x) \/ Val(x) >= lo
Within(x, lo, hi) == IsNone(x) \/ (Val(x) >= lo /\ Val(x) <= hi)

\* C13: in every snapshot returned by get_device_info every percentage lies
\* in [0, 100], every byte or count field and every frequency is >= 0, and
\* boot_time, uptime and timestamp are >= 0, whatever the host reported.
ReturnedValuesInRange ==
    \A c \in Callers :
        Returned(c) =>
            LET s == Snapshot(c)
            IN  /\ AtLeast(s.timestamp, 0)
                /\ ~IsNone(s.platform) =>
                      /\ AtLeast(Val(s.platform).boot_time, 0)
                      /\ AtLeast(Val(s.platform).uptime, 0)
                /\ ~IsNone(s.cpu) =>
                      /\ AtLeast(Val(s.cpu).physical_cores, 0)
                      /\ AtLeast(Val(s.cpu).logical_cores, 0)
                      /\ AtLeast(Val(s.cpu).current_freq, 0)
                      /\ AtLeast(Val(s.cpu).base_freq, 0)
                      /\ Within(Val(s.cpu).cpu_usage, 0, 100)
                /\ ~IsNone(s.memory) =>
                      /\ AtLeast(Val(s.memory).total, 0)
                      /\ AtLeast(Val(s.memory).used, 0)
                      /\ AtLeast(Val(s.memory).buffers, 0)
                      /\ Within(Val(s.memory).percent, 0, 100)
                /\ ~IsNone(s.disk) =>
                      LET d == Val(s.disk)
                      IN  /\ d.total_disk_space >= 0 /\ d.total_used_space >= 0
                          /\ d.total_free_space >= 0
                          /\ Within(d.average_usage_percent, 0, 10000)
                          /\ \A i \in 1..Len(d.partitions) :
                                /\ d.partitions[i].total >= 0
                                /\ d.partitions[i].used >= 0
                                /\ d.partitions[i].free >= 0
                                /\ d.partitions[i].percent >= 0
                                /\ d.partitions[i].percent <= 10000
                          /\ ~IsNone(d.io_stats) =>
                                /\ Val(d.io_stats).read_count >= 0
                                /\ Val(d.io_stats).write_count >= 0
                /\ ~IsNone(s.network) =>
                      /\ AtLeast(Val(s.network).interface_speed, 0)
                      /\ AtLeast(Val(s.network).total_bytes_sent, 0)
                      /\ AtLeast(Val(s.network).total_bytes_recv, 0)
                      /\ AtLeast(Val(s.network).download_speed, 0)
                      /\ AtLeast(Val(s.network).upload_speed, 0)
                      /\ AtLeast(Val(s.network).ping, 0)

\* C13 witness: a snapshot with all five categories has been returned, with
\* a positive uptime and a listed partition.
ReturnedValuesInRangeWitness ==
    \E c \in Callers :
        /\ Returned(c)
        /\ \A cat \in CategorySet : ~IsNone(Snapshot(c)[cat])
        /\ Val(Val(Snapshot(c).platform).uptime) > 0
        /\ Len(Val(Snapshot(c).disk).partitions) = 1

\* the flags a caller's call runs with, as a set of categories
EnabledSet(c) == {cat \in CategorySet : params[c][cat]}

\* position of a category in the fixed order
OrderOf(cat) == CHOOSE i \in 1..Len(Categories) : Categories[i] = cat

\* C14: within one call no sub-collector is invoked twice and no disabled
\* one is invoked; a call that returns has invoked every enabled one exactly
\* once; a sub-collector that failed is the last one invoked, once.
InvokedExactlyOnce ==
    \A c \in Callers :
        /\ \A i, j \in 1..Len(invoked[c]) : invoked[c][i] = invoked[c][j] => i = j
        /\ \A i \in 1..Len(invoked[c]) : invoked[c][i] \in EnabledSet(c)
        /\ Returned(c) =>
              /\ {invoked[c][i] : i \in 1..Len(invoked[c])} = EnabledSet(c)
              /\ Len(invoked[c]) = Cardinality(EnabledSet(c))
        /\ ~IsNone(failedAt[c]) =>
              /\ invoked[c] # <<>>
              /\ invoked[c][Len(invoked[c])] = Val(failedAt[c]).cat
              /\ cpc[c] = "done"

\* C14 witness: a call with platform, memory and network enabled has
\* returned after invoking exactly these three.
InvokedExactlyOnceWitness ==
    \E c \in Callers :
        /\ Returned(c)
        /\ EnabledSet(c) = {"platform", "memory", "network"}
        /\ invoked[c] = <<"platform", "memory", "network">>

\* C15: a returned snapshot has a non-null timestamp, the one assigned at
\* the start of the call; no later step of the call changes it, whatever
\* the flags (all five false included).
TimestampSetOnce ==
    /\ [](\A c \in Callers :
            /\ cpc[c] # "idle" => ~IsNone(result[c].timestamp)
            /\ Returned(c) => /\ ~IsNone(Snapshot(c).timestamp)
                               /\ Snapshot(c).timestamp = result[c].timestamp)
    /\ [][\A c \in Callers :
            cpc[c] # "idle" => result'[c].timestamp = result[c].timestamp]_vars

\* C15 witness: a call with all five flags false has returned a snapshot
\* that holds nothing but its timestamp.
TimestampSetOnceWitness ==
    \E c \in Callers :
        /\ Returned(c)
        /\ EnabledSet(c) = {}
        /\ invoked[c] = <<>>
        /\ ~IsNone(Snapshot(c).timestamp)
        /\ \A cat \in CategorySet : IsNone(Snapshot(c)[cat])

\* C18: the sub-collectors are invoked in the order platform, cpu, memory,
\* disk, network; when one fails the call is over and no later one is
\* invoked.
SequentialAbortOnFailure ==
    /\ [](\A c \in Callers :
            /\ \A i, j \in 1..Len(invoked[c]) :
                  i < j => OrderOf(invoked[c][i]) < OrderOf(invoked[c][j])
            /\ ~IsNone(failedAt[c]) =>
                  /\ cpc[c] = "done" /\ Raised(c)
                  /\ \A i \in 1..Len(invoked[c]) :
                        OrderOf(invoked[c][i]) <= OrderOf(Val(failedAt[c]).cat))
    /\ [][\A c \in Callers :
            ~IsNone(failedAt[c]) => invoked'[c] = invoked[c]]_vars

\* C18 witness: with all five enabled the cpu sub-collector has failed
\* after platform; memory, disk and network have not been invoked.
SequentialAbortOnFailureWitness ==
    \E c \in Callers :
        /\ EnabledSet(c) = CategorySet
        /\ ~IsNone(failedAt[c]) /\ Val(failedAt[c]).cat = "cpu"
        /\ invoked[c] = <<"platform", "cpu">>
        /\ cpc[c] = "done"

\* C16: every assignment to a field of a constructed model instance is
\* rejected with a validation error that reports the instance as frozen,
\* and the field keeps the value it had.
ModelsAreFrozen ==
    /\ \A i \in 1..Len(fout) :
          /\ ~fout[i].r.ok
          /\ fout[i].r.error.type = "ValidationError"
          /\ Contains(fout[i].r.error.msg, <<"Instance is frozen">>)
    /\ fin = Construct(fin.model)

\* the static fields of a category of a snapshot (null when the category is)
StaticPlatform(s) ==
    IF IsNone(s.platform) THEN None
    ELSE Some([f \in {"hostname", "os_name", "os_version", "machine_id"} |->
                  Val(s.platform)[f]])
StaticCpu(s) ==
    IF IsNone(s.cpu) THEN None
    ELSE Some([f \in {"brand_raw", "vendor_id_raw", "physical_cores", "logical_cores"} |->
                  Val(s.cpu)[f]])
StaticMemory(s) == IF IsNone(s.memory) THEN None ELSE Some(Val(s.memory).total)

\* the first call of the caller returned a snapshot
FirstReturned == ~IsNone(fout) /\ Val(fout).kind = "return"
First == Val(fout).value

\* C17: two consecutive calls with the same params on an unchanged host
\* return snapshots that agree on hostname, os_name, os_version,
\* machine_id, CPU brand, vendor and core counts, and memory total.
StaticFieldsStable ==
    \A c \in Callers :
        (FirstReturned /\ Returned(c)) =>
            /\ StaticPlatform(Snapshot(c)) = StaticPlatform(First)
            /\ StaticCpu(Snapshot(c)) = StaticCpu(First)
            /\ StaticMemory(Snapshot(c)) = StaticMemory(First)

\* C17 witness: both calls returned all five categories; uptime, cpu usage,
\* timestamp and the network counters differ between the two snapshots.
StaticFieldsStableWitness ==
    \E c \in Callers :
        /\ FirstReturned /\ Returned(c)
        /\ \A cat \in CategorySet : ~IsNone(First[cat]) /\ ~IsNone(Snapshot(c)[cat])
        /\ ~IsNone(Val(First.platform).machine_id)
        /\ Val(First.platform).uptime # Val(Snapshot(c).platform).uptime
        /\ Val(First.cpu).cpu_usage # Val(Snapshot(c).cpu).cpu_usage
        /\ First.timestamp # Snapshot(c).timestamp
        /\ Val(First.network).total_bytes_sent # Val(Snapshot(c).network).total_bytes_sent

\* the usage query of a partition fails with a permission or OS error:
\* psutil raises one, or psutil gives way to shutil and shutil raises one
QueryFails(p) ==
    \/ p.primary \in {"PermissionError", "OSError"}
    \/ /\ p.primary \in {"SystemError", "UnicodeDecodeError"}
       /\ p.fallback \in {"PermissionError", "OSError"}

\* the usage query answers with figures that are consistent
SaneFigures(p) ==
    \/ p.primary = "ok" /\ p.used >= 0 /\ p.used <= p.total /\ p.free >= 0
    \/ /\ p.primary \in {"SystemError", "UnicodeDecodeError"} /\ p.fallback = "ok"
       /\ p.ffree >= 0 /\ p.ffree <= p.ftotal

\* the devices of the partitions, in order, whose usage query does not fail
RECURSIVE AccessibleDevices(_)
AccessibleDevices(parts) ==
    IF parts = <<>> THEN <<>>
    ELSE IF QueryFails(Head(parts)) THEN AccessibleDevices(Tail(parts))
    ELSE <<Head(parts).device>> \o AccessibleDevices(Tail(parts))

\* C19: a partition whose usage query fails with a permission or OS error
\* is left out of the partitions list, the totals and the average; the
\* other partitions are still processed, and the list is the subsequence,
\* in enumeration order, of the accessible partitions.
FailedPartitionSkipped ==
    /\ (Done /\ fin.enum = "ok"
          /\ \A i \in 1..Len(fin.parts) :
                QueryFails(fin.parts[i]) \/ SaneFigures(fin.parts[i])) => Out.ok
    /\ (Done /\ Out.ok) =>
          LET ps == Out.value.partitions
          IN  /\ [i \in 1..Len(ps) |-> ps[i].device] = AccessibleDevices(fin.parts)
              /\ Out.value.total_disk_space = SumSeq([i \in 1..Len(ps) |-> ps[i].total])
              /\ Out.value.total_used_space = SumSeq([i \in 1..Len(ps) |-> ps[i].used])
              /\ Out.value.total_free_space = SumSeq([i \in 1..Len(ps) |-> ps[i].free])
              /\ IsNone(Out.value.average_usage_percent) <=>
                     AccessibleDevices(fin.parts) = <<>>
              /\ Len(ps) = 1 => Out.value.average_usage_percent = Some(ps[1].percent)

\* C19 witness: the first of two partitions fails with a permission or OS
\* error and the second one is the only one listed.
FailedPartitionSkippedWitness ==
    /\ Done /\ Out.ok
    /\ Len(fin.parts) = 2
    /\ QueryFails(fin.parts[1])
    /\ Len(Out.value.partitions) = 1
    /\ Out.value.partitions[1].device = fin.parts[2].device
    /\ Out.value.total_disk_space = fin.parts[2].total
    /\ Out.value.total_disk_space > 0

\* C20: on linux machine_id is the stripped content of /etc/machine-id when
\* that file can be read; when it is absent, the stripped content of
\* /var/lib/dbus/machine-id if that can be read, and null if not.  The
\* fallback file has no part in the result unless the primary is absent.
LinuxMachineIdFiles ==
    (Done /\ fin.os = "linux" /\ PlatformRestSucceeds(fin)) =>
        /\ fin.file1 = "ok" =>
              Out.ok /\ Out.value.machine_id = Some(Strip(fin.text1))
        /\ (fin.file1 = "FileNotFoundError" /\ fin.file2 = "ok") =>
              Out.ok /\ Out.value.machine_id = Some(Strip(fin.text2))
        /\ (fin.file1 = "FileNotFoundError" /\ fin.file2 # "ok") =>
              Out.ok /\ IsNone(Out.value.machine_id)
        /\ (fin.file1 # "FileNotFoundError" /\ Out.ok) =>
              Out.value.machine_id = Some(Strip(fin.text1))

\* C20 witness: the primary file is absent and the fallback file holds
\* " b", which gives the machine_id "b".
LinuxMachineIdFilesWitness ==
    /\ Done /\ fin.os = "linux"
    /\ fin.file1 = "FileNotFoundError" /\ fin.file2 = "ok"
    /\ fin.text2 = <<" ", "b">>
    /\ Out.ok /\ Out.value.machine_id = Some(<<"b">>)

\* C21: a listed partition's figures are those of the primary query when it
\* succeeds (the fallback is not consulted); they are those of the fallback
\* query, with used = total - free and so used + free = total, only when
\* the primary query failed with SystemError or UnicodeDecodeError.
FallbackOnlyOnSystemError ==
    (Done /\ Out.ok) =>
        LET ps == Out.value.partitions
        IN  \A j \in 1..Len(ps) : \A i \in 1..Len(fin.parts) :
                fin.parts[i].device = ps[j].device =>
                    LET p == fin.parts[i]
                    IN  /\ p.primary \in {"ok", "SystemError", "UnicodeDecodeError"}
                        /\ p.primary = "ok" =>
                              /\ ps[j].total = p.total /\ ps[j].used = p.used
                              /\ ps[j].free = p.free
                        /\ p.primary # "ok" =>
                              /\ p.fallback = "ok"
                              /\ ps[j].total = p.ftotal /\ ps[j].free = p.ffree
                              /\ ps[j].used = p.ftotal - p.ffree
                              /\ ps[j].used + ps[j].free = ps[j].total

\* C21 witness: one partition answered by the fallback query (3 total, 1
\* free, so 2 used) and one answered by the primary query although its
\* fallback would have answered differently.
FallbackOnlyOnSystemErrorWitness ==
    /\ Done /\ Out.ok
    /\ Len(fin.parts) = 2
    /\ fin.parts[1].primary = "SystemError" /\ fin.parts[1].fallback = "ok"
    /\ fin.parts[2].primary = "ok" /\ fin.parts[2].fallback = "ok"
    /\ Len(Out.value.partitions) = 2
    /\ Out.value.partitions[1].used = 2
    /\ Out.value.partitions[2].total = 10

\* C22: when the disk I/O counter query raises or returns nothing, io_stats
\* is null and _disk_info gives what it gives when the query succeeds:
\* the same outcome, partitions list, totals and average.
IoFailureLeavesRest ==
    (Done /\ fin.enum = "ok" /\ fin.io \in {"none", "raise"}) =>
        LET ref == DiskInfo([fin EXCEPT !.io = "ok"])
        IN  /\ Out.ok = ref.ok
            /\ Out.ok =>
                  /\ IsNone(Out.value.io_stats)
                  /\ ~IsNone(ref.value.io_stats)
                  /\ \A f \in DOMAIN Out.value \ {"io_stats"} : Out.value[f] = ref.value[f]

\* C22 witness: the I/O query raised and the disk result lists a partition
\* with io_stats null.
IoFailureLeavesRestWitness ==
    /\ Done /\ fin.io = "raise"
    /\ Out.ok /\ IsNone(Out.value.io_stats)
    /\ Len(Out.value.partitions) = 1
    /\ Out.value.total_used_space = 250

\* an interface name that names a loopback device
LoopbackName(name) == name \in {"lo"}

\* the IPv4 addresses of an interface outside 127.0.0.0/8, in order
Ipv4Outside(iface) ==
    SelectSeq(iface.addrs,
              LAMBDA a : a.family = "AF_INET" /\ a.address \notin {"127.0.0.1"})

\* an interface discovery may select: not loopback-named, with an IPv4
\* address outside the loopback range, administratively up
Qualifies(iface) ==
    /\ ~LoopbackName(iface.name)
    /\ Ipv4Outside(iface) # <<>>
    /\ iface.stats = "up"

QualifyingIndices(ifaces) == {i \in 1..Len(ifaces) : Qualifies(ifaces[i])}

\* C23: discovery selects the first interface in enumeration order that is
\* not loopback-named, has an IPv4 address outside the loopback range and
\* is up; interface_name and local_ip come from that interface.
SelectsFirstQualifying ==
    (Done /\ Out.ok /\ QualifyingIndices(fin.ifaces) # {}) =>
        LET i == CHOOSE k \in QualifyingIndices(fin.ifaces) :
                    \A m \in QualifyingIndices(fin.ifaces) : k <= m
        IN  /\ Out.value.interface_name = Some(fin.ifaces[i].name)
            /\ Out.value.local_ip = Some(Ipv4Outside(fin.ifaces[i])[1].address)

\* C29: in a NetworkInfoReturn interface_name is null exactly when local_ip
\* is; mac_address and interface_speed are non-null only with a selected
\* interface; interface_speed is strictly positive when non-null; when no
\* interface is up with an IPv4 address outside the loopback range all four
\* are null and the category succeeds as it would otherwise.
InterfaceFieldsTogether ==
    /\ (Done /\ Out.ok) =>
          LET r == Out.value
          IN  /\ IsNone(r.interface_name) <=> IsNone(r.local_ip)
              /\ ~IsNone(r.mac_address) => ~IsNone(r.local_ip)
              /\ ~IsNone(r.interface_speed) =>
                    ~IsNone(r.local_ip) /\ Val(r.interface_speed) > 0
              /\ QualifyingIndices(fin.ifaces) = {} =>
                    /\ IsNone(r.local_ip) /\ IsNone(r.interface_name)
                    /\ IsNone(r.mac_address) /\ IsNone(r.interface_speed)
    /\ (Done /\ fin.hostname = "ok" /\ fin.discovery = "ok"
          /\ IsNone(CounterError(fin.counters)) /\ fin.counters[1].sent >= 0
          /\ QualifyingIndices(fin.ifaces) = {}) => Out.ok

\* C29 witness: the selected interface reports speed 0 and has no link
\* address: local_ip and interface_name are set, the other two are null.
InterfaceFieldsTogetherWitness ==
    /\ Done /\ Out.ok
    /\ Out.value.interface_name = Some("eth2")
    /\ Out.value.local_ip = Some("10.0.0.3")
    /\ IsNone(Out.value.interface_speed) /\ IsNone(Out.value.mac_address)

\* the effects of the _network_info call, beside its outcome
Effects == fout[2]

\* the services whose response matches the dotted-quad pattern
Matching(services) == {i \in 1..Len(services) : services[i] = "match"}

\* C24: the IP-echo services are tried in order; public_ip is the response
\* of the first one that matches and no service after it is contacted; if
\* none matches public_ip is null, and in no case does this step change
\* whether the network collection succeeds.
PublicIpFirstMatch ==
    (Done /\ fin.hostname = "ok" /\ fin.discovery = "ok") =>
        /\ IF Matching(fin.services) = {}
           THEN /\ Effects.contacted = Len(fin.services)
                /\ Out.ok => IsNone(Out.value.public_ip)
           ELSE LET k == CHOOSE i \in Matching(fin.services) :
                             \A j \in Matching(fin.services) : i <= j
                IN  /\ Effects.contacted = k
                    /\ Out.ok => Out.value.public_ip = Some(<<"ip", k>>)
        /\ Out.ok = NetworkInfo([fin EXCEPT !.services = <<"match", "match">>]).ok

\* C24 witness: both services would match; only the first is contacted and
\* its response is the public_ip.
PublicIpFirstMatchWitness ==
    /\ Done /\ Out.ok
    /\ fin.services = <<"match", "match">>
    /\ Effects.contacted = 1
    /\ Out.value.public_ip = Some(<<"ip", 1>>)

\* s is what a byte difference gives as a speed: round(diff * 8 / 3000000, 2)
\* in hundredths of a Mbps when that is strictly positive, null when it is not
IsSpeedOf(s, diff) ==
    IF IsNone(s) THEN 2 * (diff * 800) <= 3000000
    ELSE Val(s) > 0 /\ IsRounded(Val(s), diff * 800, 3000000)

\* C25: download_speed and upload_speed are round(delta x 8 / 3000000, 2)
\* of the byte counters read before and after the sleep (the second and
\* third reading), and null, never 0 or negative, when that value is not
\* strictly positive, decreasing counters included.
SpeedsFromSleepWindow ==
    (Done /\ Out.ok) =>
        /\ IsSpeedOf(Out.value.download_speed,
                     fin.counters[3].recv - fin.counters[2].recv)
        /\ IsSpeedOf(Out.value.upload_speed,
                     fin.counters[3].sent - fin.counters[2].sent)
        /\ fin.counters[3].recv <= fin.counters[2].recv => IsNone(Out.value.download_speed)
        /\ fin.counters[3].sent <= fin.counters[2].sent => IsNone(Out.value.upload_speed)
        /\ Out.value.total_bytes_sent = Some(fin.counters[1].sent)
        /\ Out.value.total_bytes_recv = Some(fin.counters[1].recv)

\* C25 witness: 375000 bytes sent within the window give an upload_speed of
\* 1.0 Mbps, and one byte received gives a null download_speed; the reading
\* before the window differs from the first one of the window.
SpeedsFromSleepWindowWitness ==
    /\ Done /\ Out.ok
    /\ fin.counters[1].sent # fin.counters[2].sent
    /\ fin.counters[3].sent - fin.counters[2].sent = 375000
    /\ fin.counters[3].recv - fin.counters[2].recv = 1
    /\ Out.value.upload_speed = Some(100)
    /\ IsNone(Out.value.download_speed)

\* C26: ping is non-null only when the ping command exits with code 0 and
\* its output holds a time token; on a command error, a non-zero exit or no
\* match ping is null, the hostname is there, and _network_info succeeds
\* whenever it does with a working ping.
PingNeverFatal ==
    /\ (Done /\ Out.ok) =>
          /\ ~IsNone(Out.value.ping) <=> fin.ping = "match"
          /\ Out.value.hostname = Some("host")
    /\ (Done /\ fin.ping # "match") =>
          Out.ok = NetworkInfo([fin EXCEPT !.ping = "match"]).ok

\* C26 witness: the ping command exits with a non-zero code; the network
\* result is there with ping null and the hostname set.
PingNeverFatalWitness ==
    /\ Done /\ fin.ping = "nonzero"
    /\ Out.ok /\ IsNone(Out.value.ping)
    /\ Out.value.hostname = Some("host")
    /\ ~IsNone(Out.value.local_ip)

\* C27 as stated: logical_cores is the logical count the OS reports, and
\* physical_cores the physical count the OS reports or, when that is
\* unavailable, the count of the CPU-identification source.
CoresFromOs ==
    (Done /\ Out.ok) =>
        /\ Out.value.logical_cores = fin.logical
        /\ Out.value.physical_cores =
              IF ~IsNone(fin.physical) THEN fin.physical ELSE fin.count

\* C27, amended: logical_cores is the count of the CPU-identification
\* source (null when it gives none), whatever the OS would report;
\* physical_cores is the physical count the OS reports or, when that is
\* unavailable, the count of the CPU-identification source.
CoresBySource ==
    (Done /\ Out.ok) =>
        /\ Out.value.logical_cores = fin.count
        /\ Out.value.physical_cores =
              IF ~IsNone(fin.physical) THEN fin.physical ELSE fin.count

\* C27 witness: the OS reports no physical count and 8 logical cores, the
\* CPU-identification source counts 4: both fields are 4.
CoresBySourceWitness ==
    /\ Done /\ Out.ok
    /\ IsNone(fin.physical) /\ fin.logical = Some(8) /\ fin.count = Some(4)
    /\ Out.value.physical_cores = Some(4)
    /\ Out.value.logical_cores = Some(4)

\* the categories present in a snapshot are those the flags f ask for
CategoriesOf(v, f) == \A cat \in CategorySet : ~IsNone(v[cat]) <=> f[cat]

\* C28: under every interleaving of two get_device_info calls, a step of
\* one call leaves the other call's snapshot, timestamp, record of called
\* sub-collectors and outcome alone; a returned snapshot is the call's own
\* (its categories are those of its own params, its timestamp the one it
\* read on entry), and a failed call is failed by a sub-collector its own
\* params asked for.
CallsDoNotInterfere ==
    [][\A c \in TwoCallers :
        /\ cpc'[c] = cpc[c] =>
              /\ result'[c] = result[c]
              /\ outcome'[c] = outcome[c]
              /\ invoked'[c] = invoked[c]
              /\ failedAt'[c] = failedAt[c]
        /\ (cpc[c] # "idle" /\ cpc'[c] # "idle") =>
              result'[c].timestamp = result[c].timestamp
        /\ (IsNone(outcome[c]) /\ ~IsNone(outcome'[c])) =>
              LET o == Val(outcome'[c])
              IN  IF o.kind = "return"
                  THEN /\ CategoriesOf(o.value, params[c])
                       /\ o.value = result[c]
                       /\ IsNone(failedAt[c])
                  ELSE /\ ~IsNone(failedAt'[c])
                       /\ params[c][Val(failedAt'[c]).cat]
                       /\ o.error = DeviceFailure(Val(failedAt'[c]).error)
    ]_vars

\* C28 witness: the two calls had different params, one has failed and the
\* other has returned its own snapshot.
CallsDoNotInterfereWitness ==
    /\ cpc = [c \in TwoCallers |-> "done"]
    /\ params["c1"] # params["c2"]
    /\ Val(outcome["c1"]).kind = "raise"
    /\ Val(outcome["c2"]).kind = "return"
    /\ CategoriesOf(Val(outcome["c2"]).value, params["c2"])
    /\ ~IsNone(Val(outcome["c2"]).value.timestamp)
    /\ ~IsNone(failedAt["c1"]) /\ IsNone(failedAt["c2"])

\* thread t is inside the with block of line 48
InWith(t) == tpc[t] \in {"check2", "construct", "store", "release"}

\* C30: under fair scheduling every call of DeviceInfo() returns, and what
\* it returns is an instance; the threads inside the with block are at
\* most one, the one that holds the lock.
EveryCallReturns ==
    /\ [](\A t, u \in Threads : (InWith(t) /\ InWith(u)) => (t = u /\ lock = t))
    /\ \A t \in Threads :
          (tpc[t] # "idle") ~>
              (tpc[t] = "idle" /\ tret[t] # <<>> /\ tret[t][Len(tret[t])] # 0)
    /\ \A t \in Threads : (lock = t) ~> (lock # t)

\* C30 witness: thread t built the instance, released the lock and has
\* returned; thread u, which found no instance at line 47, now holds the
\* lock on the path that builds nothing and is about to release it.
EveryCallReturnsWitness ==
    \E t, u \in Threads :
        /\ t # u
        /\ tpc[t] = "idle" /\ tobj[t] # 0 /\ tret[t] = <<instance>>
        /\ tpc[u] = "release" /\ tobj[u] = 0 /\ lock = u
        /\ instance # 0

====
